---- MODULE Spec2Model ----
(***************************************************************************)
(* Model of src/src/lib.rs: a proxy dinput8.dll whose DllMain, on process  *)
(* attach, reads affinity.toml and spawns a thread that sleeps for the     *)
(* configured delay and then narrows the affinity mask of the process.     *)
(*                                                                         *)
(* Masks are machine words (usize).  The word is scaled down to WordBits   *)
(* bits; every bitwise operation is computed on integers modulo            *)
(* 2^WordBits, so a shift by WordBits or more overflows as it does in the  *)
(* program.                                                                *)
(***************************************************************************)
EXTENDS Integers, Sequences, FiniteSets

\* ---------------------------------------------------------------- bounds
WordBits == 4       \* width of usize in the model
NumCpus == 3        \* logical processors of the machine (system affinity mask)
MaxLen == 2         \* longest Config.exclude list
MaxDelay == 1       \* largest Config.delay, in clock ticks

\* ------------------------------------------------------ program constants
DLL_PROCESS_ATTACH == 1
DLL_PROCESS_DETACH == 0
\* reasons other than attach and detach (thread attach, thread detach)
OtherReasons == {2, 3}

NoRet == -1         \* DllMain has not returned a value
Panic == -1         \* get_exclude_mask did not return: the shift panicked
Pending == Panic - 1 \* get_exclude_mask has not been applied yet
NoPrev == [valid |-> FALSE, res |-> "none", sets |-> 0]

\* ------------------------------------------------------ machine words
RECURSIVE Pow2(_)
Pow2(n) == IF n = 0 THEN 1 ELSE 2 * Pow2(n - 1)

WordMax == Pow2(WordBits) - 1
Words == 0..WordMax

Bit(m, i) == (m \div Pow2(i)) % 2

RECURSIVE BitAndFrom(_, _, _)
BitAndFrom(a, b, i) ==
    IF i = WordBits THEN 0
    ELSE Pow2(i) * Bit(a, i) * Bit(b, i) + BitAndFrom(a, b, i + 1)

\* a & b
BitAnd(a, b) == BitAndFrom(a, b, 0)
\* a | b
BitOr(a, b) == a + b - BitAnd(a, b)
\* !a on a usize
BitNot(a) == WordMax - a

\* ------------------------------------------------------ the machine
SystemMask == Pow2(NumCpus) - 1
\* process affinity masks the OS reports: non-empty subsets of the system mask
ProcMasks == {m \in 1..SystemMask : BitAnd(m, SystemMask) = m}
\* values OpenProcess can return: NULL, INVALID_HANDLE_VALUE (-1), a handle
AllBitsSet == WordMax
HandleValues == {0, AllBitsSet, 4}

\* Config.exclude is a Vec<u64>: any index, also one at or past the word width
Indices == 0..(WordBits + 1)
ExcludeLists == UNION {[1..n -> Indices] : n \in 0..MaxLen}
\* Config.delay is an f64: whole ticks here, -1 stands for a negative delay
Delays == (0..MaxDelay) \cup {-1}
Configs == [delay : Delays, exclude : ExcludeLists]
NoConfig == [delay |-> 0, exclude |-> <<>>]

Range(s) == {s[i] : i \in 1..Len(s)}
\* the bit positions set in a word
Bits(m) == {i \in 0..(WordBits - 1) : Bit(m, i) = 1}

VARIABLES
    liveMask,       \* the OS's affinity mask of the process
    hostAlive,      \* the host process runs
    dllState,       \* "unloaded", "attached", "failed", "detached"
    attachRet,      \* value DllMain returned for DLL_PROCESS_ATTACH, or NoRet
    lastRet,        \* value the latest DllMain call returned, or NoRet
    configState,    \* read_config_file: "none", "ok", "unreadable", "malformed"
    config,         \* the Config moved into the thread
    thread,         \* "none", "spawned", "sleeping", "running", "finished", "panicked"
    threadErr,      \* why the thread panicked
    elapsed,        \* clock ticks since the thread went to sleep
    excl,           \* set_processor_affinity: the argument exclude
    pc,             \* set_processor_affinity: "idle", "query", "set", "done"
    handle,         \* process_handle
    pam,            \* process_affinity_mask
    newMask,        \* new_mask
    res,            \* result of the call
    openCalls, queryCalls, setCalls, closeCalls,  \* OS calls of this invocation
    setArgs,        \* masks passed to SetProcessAffinityMask in this invocation
    ext,            \* another agent changed liveMask since the invocation started
    prev,           \* the invocation before this one, when it had the same
                    \* argument and no other agent changed liveMask since it began
    maskIn,         \* get_exclude_mask on its own: the argument
    maskOut         \* get_exclude_mask on its own: the result, Panic or Pending

dllVars == <<hostAlive, dllState, attachRet, lastRet, configState, config>>
threadVars == <<thread, threadErr, elapsed>>
callVars == <<excl, pc, handle, pam, newMask, res, openCalls, queryCalls,
              setCalls, closeCalls, setArgs, ext>>
maskVars == <<maskIn, maskOut>>
vars == <<liveMask, dllVars, threadVars, callVars, prev, maskVars>>

\* ------------------------------------------------------ HANDLE / OwnedHandle
\* mutant: only the null sentinel is recognised
is_valid_NullOnly(h) == h # 0

is_valid(h) == h # 0 /\ h # AllBitsSet

\* Drop for OwnedHandle: the number of CloseHandle calls it makes
DropCloses(h) == IF is_valid(h) THEN 1 ELSE 0

\* ------------------------------------------------------ get_exclude_mask
\* 1 << p on a usize: overflow panics with overflow checks, else the shift
\* amount wraps to the word width
Shl1(p, checks) ==
    IF p < WordBits THEN Pow2(p)
    ELSE IF checks THEN Panic
    ELSE Pow2(p % WordBits)

RECURSIVE ExcludeFold(_, _, _, _)
ExcludeFold(exclude, i, mask, checks) ==
    IF i > Len(exclude) THEN mask
    ELSE LET b == Shl1(exclude[i], checks)
         IN  IF b = Panic THEN Panic
             ELSE ExcludeFold(exclude, i + 1, BitOr(mask, b), checks)

get_exclude_mask(exclude, checks) == ExcludeFold(exclude, 1, 0, checks)

\* ------------------------------------------------------ set_processor_affinity
\* mutant: the early return is missing
GuardA_Never(mask) == FALSE

\* mutant: the test reads bit 1
GuardA_Bit1(mask) == BitAnd(mask, 2) # 2

\* "If CPU 0 is already off, then return okay."
GuardA(mask) == BitAnd(mask, 1) # 1

\* mutant: the complement is missing
NewMask_NoNot(mask, exclude) == BitAnd(mask, exclude)

\* new_mask = process_affinity_mask & !exclude
NewMask(mask, exclude) == BitAnd(mask, BitNot(exclude))

\* mutant: the empty mask is not refused
GuardB_Never(mask) == FALSE

\* if new_mask == 0 { return Err(..) }
GuardB(mask) == mask = 0

\* SetProcessAffinityMask rejects a mask that is empty or leaves the system mask
OsAcceptsMask(mask) == mask # 0 /\ BitAnd(mask, SystemMask) = mask

\* GetCurrentProcessId, OpenProcess, OwnedHandle::new, the is_valid check
Enter(e) ==
    \E h \in HandleValues :
        /\ excl' = e
        /\ handle' = h
        /\ openCalls' = 1
        /\ queryCalls' = 0
        /\ setCalls' = 0
        /\ setArgs' = {}
        /\ ext' = FALSE
        /\ pam' = 0
        /\ newMask' = 0
        /\ IF is_valid(h)
           THEN pc' = "query" /\ res' = "none" /\ closeCalls' = 0
           ELSE pc' = "done" /\ res' = "ErrOpen" /\ closeCalls' = DropCloses(h)

Running == hostAlive /\ dllState # "detached"

\* GetProcessAffinityMask, guard A, the new mask, guard B
Query ==
    /\ Running
    /\ pc = "query"
    /\ queryCalls' = queryCalls + 1
    /\ \E ok \in BOOLEAN :
        IF ~ok THEN
            /\ res' = "ErrQuery" /\ pc' = "done"
            /\ closeCalls' = closeCalls + DropCloses(handle)
            /\ UNCHANGED <<pam, newMask>>
        ELSE
            /\ pam' = liveMask
            /\ IF GuardA(liveMask) THEN
                   /\ res' = "Ok" /\ pc' = "done"
                   /\ closeCalls' = closeCalls + DropCloses(handle)
                   /\ UNCHANGED newMask
               ELSE
                   /\ newMask' = NewMask(liveMask, excl)
                   /\ IF GuardB(NewMask(liveMask, excl)) THEN
                          /\ res' = "ErrNoCpu" /\ pc' = "done"
                          /\ closeCalls' = closeCalls + DropCloses(handle)
                      ELSE
                          /\ pc' = "set"
                          /\ UNCHANGED <<res, closeCalls>>
    /\ UNCHANGED <<liveMask, dllVars, threadVars, prev, maskVars,
                   excl, handle, openCalls, setCalls, setArgs, ext>>

\* SetProcessAffinityMask and the return
Set ==
    /\ Running
    /\ pc = "set"
    /\ setCalls' = setCalls + 1
    /\ setArgs' = setArgs \cup {newMask}
    /\ \E ok \in BOOLEAN :
        IF ok /\ OsAcceptsMask(newMask)
        THEN liveMask' = newMask /\ res' = "Ok"
        ELSE liveMask' = liveMask /\ res' = "ErrSet"
    /\ pc' = "done"
    /\ closeCalls' = closeCalls + DropCloses(handle)
    /\ UNCHANGED <<dllVars, threadVars, prev, maskVars,
                   excl, handle, pam, newMask, openCalls, queryCalls, ext>>

\* another agent (the operator, another tool) sets the affinity of the process
ExternalChange ==
    /\ Running
    /\ \E m \in ProcMasks : m # liveMask /\ liveMask' = m
    /\ ext' = (pc # "idle")
    /\ UNCHANGED <<dllVars, threadVars, prev, maskVars,
                   excl, pc, handle, pam, newMask, res, openCalls, queryCalls,
                   setCalls, closeCalls, setArgs>>

\* a caller invokes set_processor_affinity(e)
Invoke ==
    /\ pc \in {"idle", "done"}
    /\ thread = "none"
    /\ \E e \in Words :
        /\ prev' = IF pc = "done" /\ e = excl /\ ~ext
                   THEN [valid |-> TRUE, res |-> res, sets |-> setCalls]
                   ELSE NoPrev
        /\ Enter(e)
    /\ UNCHANGED <<liveMask, dllVars, threadVars, maskVars>>

\* ------------------------------------------------------ DllMain
\* match dwReason { DLL_PROCESS_ATTACH => .. 1, DLL_PROCESS_DETACH => 1, _ => 0 }
DllMainRet(dwReason) ==
    IF dwReason = DLL_PROCESS_ATTACH THEN 1
    ELSE IF dwReason = DLL_PROCESS_DETACH THEN 1
    ELSE 0

\* init_proxy(hinstDLL): Err(e) => panic!("Could not proxy dll: {e}")
ProxyPanics(proxyOk) == ~proxyOk

\* read_config_file: fs::read_to_string(..).expect("Could not read string")
ReadPanics(outcome) == outcome = "unreadable"

\* mutant: the Err of read_config_file is not acted on
ExpectPanics_Never(outcome) == FALSE

\* read_config_file(hinstDLL).expect("Could not read config")
ExpectPanics(outcome) == outcome = "malformed"

\* DllMain(hinstDLL, DLL_PROCESS_ATTACH, _).  A panic leaves an extern "stdcall"
\* function: the process aborts, or the unwinding enters the loader; either
\* way DllMain returns no value, and the host may or may not survive.
DllMainAttach ==
    /\ hostAlive
    /\ dllState = "unloaded"
    /\ \E proxyOk \in BOOLEAN, outcome \in {"ok", "unreadable", "malformed"},
          cfg \in Configs :
        IF ProxyPanics(proxyOk) \/ ReadPanics(outcome) \/ ExpectPanics(outcome)
        THEN /\ dllState' = "failed"
             /\ \E alive \in BOOLEAN : hostAlive' = alive
             /\ configState' = IF ProxyPanics(proxyOk) THEN "none" ELSE outcome
             /\ UNCHANGED <<attachRet, lastRet, config, thread>>
        ELSE /\ configState' = outcome
             /\ config' = cfg
             /\ thread' = "spawned"
             /\ dllState' = "attached"
             /\ attachRet' = DllMainRet(DLL_PROCESS_ATTACH)
             /\ lastRet' = DllMainRet(DLL_PROCESS_ATTACH)
             /\ UNCHANGED hostAlive
    /\ UNCHANGED <<liveMask, threadErr, elapsed, callVars, prev, maskVars>>

\* DllMain(hinstDLL, DLL_PROCESS_DETACH, _): the process ends or unloads the dll
DllMainDetach ==
    /\ hostAlive
    /\ dllState = "attached"
    /\ dllState' = "detached"
    /\ lastRet' = DllMainRet(DLL_PROCESS_DETACH)
    /\ UNCHANGED <<liveMask, hostAlive, attachRet, configState, config,
                   threadVars, callVars, prev, maskVars>>

\* DllMain with any other reason
DllMainOther ==
    /\ hostAlive
    /\ dllState = "attached"
    /\ \E dwReason \in OtherReasons : lastRet' = DllMainRet(dwReason)
    /\ UNCHANGED <<liveMask, hostAlive, dllState, attachRet, configState, config,
                   threadVars, callVars, prev, maskVars>>

\* ------------------------------------------------------ the spawned thread
\* Duration::from_secs_f64 panics on a negative value
DurationPanics(delay) == delay < 0

\* mutant: the thread does not sleep
SleepOver_Always(ticks, delay) == TRUE

\* std::thread::sleep returns once the duration has passed
SleepOver(ticks, delay) == ticks >= delay

ThreadStart ==
    /\ Running
    /\ thread = "spawned"
    /\ IF DurationPanics(config.delay)
       THEN thread' = "panicked" /\ threadErr' = "delay"
       ELSE thread' = "sleeping" /\ threadErr' = threadErr
    /\ elapsed' = 0
    /\ UNCHANGED <<liveMask, dllVars, callVars, prev, maskVars>>

Tick ==
    /\ Running
    /\ thread = "sleeping"
    /\ elapsed <= MaxDelay
    /\ elapsed' = elapsed + 1
    /\ UNCHANGED <<liveMask, dllVars, thread, threadErr, callVars, prev, maskVars>>

\* the sleep returns; get_exclude_mask(config.exclude) consumes the list;
\* set_processor_affinity starts
ThreadWake ==
    /\ Running
    /\ thread = "sleeping"
    /\ SleepOver(elapsed, config.delay)
    /\ config' = [config EXCEPT !.exclude = <<>>]
    /\ \E checks \in BOOLEAN :
        LET m == get_exclude_mask(config.exclude, checks)
        IN  IF m = Panic
            THEN thread' = "panicked" /\ threadErr' = "shift" /\ UNCHANGED callVars
            ELSE thread' = "running" /\ threadErr' = threadErr /\ Enter(m)
    /\ UNCHANGED <<liveMask, hostAlive, dllState, attachRet, lastRet, configState,
                   elapsed, prev, maskVars>>

\* set_processor_affinity(..).expect("Could not set processor affinity")
ThreadFinish ==
    /\ Running
    /\ thread = "running"
    /\ pc = "done"
    /\ IF res = "Ok"
       THEN thread' = "finished" /\ threadErr' = threadErr
       ELSE thread' = "panicked" /\ threadErr' = "expect"
    /\ UNCHANGED <<liveMask, dllVars, elapsed, callVars, prev, maskVars>>

\* get_exclude_mask applied to a list, under either build
ApplyMask ==
    /\ maskOut = Pending
    /\ \E checks \in BOOLEAN : maskOut' = get_exclude_mask(maskIn, checks)
    /\ UNCHANGED <<liveMask, dllVars, threadVars, callVars, prev, maskIn>>

Init ==
    /\ liveMask \in ProcMasks
    /\ hostAlive = TRUE
    /\ dllState = "unloaded"
    /\ attachRet = NoRet
    /\ lastRet = NoRet
    /\ configState = "none"
    /\ config = NoConfig
    /\ thread = "none"
    /\ threadErr = "none"
    /\ elapsed = 0
    /\ excl = 0
    /\ pc = "idle"
    /\ handle = 0
    /\ pam = 0
    /\ newMask = 0
    /\ res = "none"
    /\ openCalls = 0
    /\ queryCalls = 0
    /\ setCalls = 0
    /\ closeCalls = 0
    /\ setArgs = {}
    /\ ext = FALSE
    /\ prev = NoPrev
    /\ maskIn = <<>>
    /\ maskOut = Pending

InitMask ==
    /\ liveMask \in ProcMasks
    /\ hostAlive = TRUE
    /\ dllState = "unloaded"
    /\ attachRet = NoRet
    /\ lastRet = NoRet
    /\ configState = "none"
    /\ config = NoConfig
    /\ thread = "none"
    /\ threadErr = "none"
    /\ elapsed = 0
    /\ excl = 0
    /\ pc = "idle"
    /\ handle = 0
    /\ pam = 0
    /\ newMask = 0
    /\ res = "none"
    /\ openCalls = 0
    /\ queryCalls = 0
    /\ setCalls = 0
    /\ closeCalls = 0
    /\ setArgs = {}
    /\ ext = FALSE
    /\ prev = NoPrev
    /\ maskIn \in ExcludeLists
    /\ maskOut = Pending

\* the dll loaded into a host process
Next ==
    \/ DllMainAttach \/ DllMainDetach \/ DllMainOther
    \/ ThreadStart \/ Tick \/ ThreadWake \/ Query \/ Set \/ ThreadFinish
    \/ ExternalChange
Spec == Init /\ [][Next]_vars

\* get_exclude_mask applied to every list
NextMask == ApplyMask
SpecMask == InitMask /\ [][NextMask]_vars

\* set_processor_affinity called repeatedly on a live process
NextAffinity == Invoke \/ Query \/ Set \/ ExternalChange
SpecAffinity == Init /\ [][NextAffinity]_vars

\* ------------------------------------------------------ properties
Queried == queryCalls = 1 /\ res # "ErrQuery"
ApiCalls == openCalls + queryCalls + setCalls
OsFailed(r) == r \in {"ErrOpen", "ErrQuery", "ErrSet"}

\* C1 as stated: SetProcessAffinityMask is never called with 0, and whenever
\* process_mask AND NOT exclusion_mask is 0 the call returns the
\* NoEligibleProcessors error, issues no set call and leaves the live mask as
\* it was.
C1_Original ==
    /\ 0 \notin setArgs
    /\ (pc = "done" /\ Queried /\ Bits(pam) \ Bits(excl) = {})
         => /\ res = "ErrNoCpu"
            /\ setCalls = 0
            /\ (~ext => liveMask = pam)

\* C1 amended: SetProcessAffinityMask is never called with 0; whenever
\* process_mask AND NOT exclusion_mask is 0 no set call is issued and the live
\* mask is left as it was, and the call returns the NoEligibleProcessors error
\* when bit 0 of the process mask is set and success (guard A) when it is clear.
C1_NoEmptyMask ==
    /\ 0 \notin setArgs
    /\ (pc = "done" /\ Queried /\ Bits(pam) \ Bits(excl) = {})
         => /\ res = (IF 0 \in Bits(pam) THEN "ErrNoCpu" ELSE "Ok")
            /\ setCalls = 0
            /\ (~ext => liveMask = pam)

C1_Witness ==
    pc = "done" /\ res = "ErrNoCpu" /\ pam = 7 /\ excl = 7 /\ liveMask = 7 /\ ~ext

\* C2 as stated: of two calls in sequence with the same exclusion mask, no
\* other agent changing the affinity and no OS call failing, the first
\* performs the real mutation and the second returns success through guard A
\* without a set call.
C2_Original ==
    (prev.valid /\ pc = "done" /\ ~ext /\ ~OsFailed(prev.res) /\ ~OsFailed(res))
        => /\ prev.res = "Ok" /\ prev.sets = 1
           /\ res = "Ok" /\ setCalls = 0 /\ 0 \notin Bits(pam)

\* C2 amended: when the first of two such calls performed the real mutation
\* and the second one's open and query succeed, the second call leaves the
\* live mask as the first call set it, any set call it issues passes that
\* same mask, and when the exclusion mask has bit 0 set it returns success
\* through guard A without a set call.
C2_SecondCall ==
    (/\ prev.valid /\ prev.res = "Ok" /\ prev.sets = 1
     /\ pc = "done" /\ ~ext /\ Queried)
        => /\ liveMask = pam
           /\ setArgs \subseteq {pam}
           /\ (0 \in Bits(excl)
                 => res = "Ok" /\ setCalls = 0 /\ 0 \notin Bits(pam))

C2_Witness ==
    /\ prev.valid /\ prev.res = "Ok" /\ prev.sets = 1
    /\ pc = "done" /\ ~ext /\ excl = 1 /\ res = "Ok" /\ setCalls = 0
    /\ pam = 6 /\ liveMask = 6

\* C3: one invocation issues exactly one CloseHandle when the handle that
\* OpenProcess returned is neither 0 nor all-bits-set and none when it is,
\* whatever the exit path, and no CloseHandle while the handle is still to be
\* used.
C3_ReleaseOnce ==
    /\ pc = "done"
         => closeCalls = (IF handle = 0 \/ handle = AllBitsSet THEN 0 ELSE 1)
    /\ pc \in {"query", "set"}
         => closeCalls = 0 /\ handle # 0 /\ handle # AllBitsSet
    /\ pc = "idle" => closeCalls = 0

C3_Witness ==
    pc = "done" /\ res = "ErrNoCpu" /\ handle = 4 /\ closeCalls = 1

\* C4: in the mask get_exclude_mask returns, bit i is set if and only if i is
\* in the list, whatever the order or repetition of the list; the empty list
\* gives 0.
C4_BitIffMember ==
    (maskOut # Pending /\ maskOut # Panic)
        => /\ \A i \in 0..(WordBits - 1) :
                 (Bit(maskOut, i) = 1) <=> (i \in Range(maskIn))
           /\ (maskIn = <<>> => maskOut = 0)

\* C5: get_exclude_mask returns a mask for every list of indices, and when
\* every index of the list is beyond the processors of the process mask the
\* mask takes nothing away from the process mask.
C5_TotalNoIntersect ==
    maskOut # Pending
        => /\ maskOut # Panic
           /\ (Range(maskIn) \cap Bits(liveMask) = {})
                 => Bits(liveMask) \ Bits(maskOut) = Bits(liveMask)

\* C6: when the queried process mask has bit 0 clear the call returns
\* success for every exclusion mask, issues no set call, and the live mask is
\* left as it was.
C6_GuardA ==
    (pc = "done" /\ Queried /\ 0 \notin Bits(pam))
        => /\ res = "Ok"
           /\ setCalls = 0
           /\ (~ext => liveMask = pam)

C6_Witness ==
    pc = "done" /\ Queried /\ pam = 6 /\ excl = 6 /\ res = "Ok" /\ liveMask = 6

\* C7: when the call succeeds on a queried process mask with bit 0 set, the
\* live mask is that queried mask AND NOT the exclusion mask, and the queried
\* mask is the live mask of the moment of the query.
C7_NewMaskApplied ==
    /\ (pc = "done" /\ res = "Ok" /\ Queried /\ 0 \in Bits(pam) /\ ~ext)
         => /\ Bits(liveMask) = Bits(pam) \ Bits(excl)
            /\ setArgs = {liveMask}
    /\ (pc = "set" /\ ~ext) => pam = liveMask

C7_Witness ==
    pc = "done" /\ res = "Ok" /\ pam = 7 /\ excl = 6 /\ liveMask = 1 /\ ~ext

\* C8: every OS affinity call of the background thread comes after the
\* configuration was loaded and after the whole delay has passed since the
\* thread went to sleep, and the attach call has returned by the time the
\* thread exists.
C8_AfterDelay ==
    /\ ApiCalls > 0
         => /\ configState = "ok"
            /\ config.delay >= 0
            /\ elapsed >= config.delay
    /\ thread # "none" => attachRet = 1

C8_Witness ==
    thread = "running" /\ queryCalls = 1 /\ config.delay = 1 /\ attachRet = 1

\* C9: when loading the configuration fails, no thread is started and no OS
\* affinity call is made.
C9_NoTaskOnConfigFailure ==
    configState \in {"unreadable", "malformed"}
        => thread = "none" /\ ApiCalls = 0 /\ pc = "idle"

C9_Witness ==
    configState = "malformed" /\ dllState = "failed" /\ thread = "none"

\* C10: whichever error occurs after an attach event, the host keeps running
\* and the attach call returns 1.
C10_HostUnaffected ==
    (\/ configState \in {"unreadable", "malformed"}
     \/ (thread # "none" /\ pc = "done" /\ res # "Ok"))
        => hostAlive /\ attachRet = 1

====
